---- MODULE Spec2Model ----
(***************************************************************************)
(* The join-and-aggregate pipeline of join_claims_data.py: load_csv, the   *)
(* namespacing renames, aggregate_clinical_data, the nine pandas left      *)
(* merges, the '_x'/'_y' cleanup and the final to_csv.                     *)
(*                                                                         *)
(* A DataFrame is a record [cols, dtypes, rows]: cols and dtypes are       *)
(* parallel sequences, every row is a sequence parallel to cols.  Every    *)
(* cell is a string; a missing value is NaN.  A numeric cell holds its     *)
(* canonical digits and the column's dtype says how str() renders it.      *)
(***************************************************************************)
EXTENDS Integers, Sequences, FiniteSets, TLC

VARIABLES files, pc, tables, prepared, joined, written, err, prov

vars == <<files, pc, tables, prepared, joined, written, err, prov>>

(***************************************************************************)
(* Text                                                                    *)
(***************************************************************************)

\* The missing value.  pandas.read_csv reads the literal text "NaN" as
\* missing too, so no loaded string cell ever equals it.
NaN == "NaN"

\* The default na_values of pandas.read_csv that the bounded inputs can hold.
NaStrings == {"", "NaN", "NA", "null"}

Digits == {"0", "1", "2", "3", "4", "5", "6", "7", "8", "9"}

StartsWith(s, pre) == Len(s) >= Len(pre) /\ SubSeq(s, 1, Len(pre)) = pre

EndsWith(s, suf) ==
    Len(s) >= Len(suf) /\ SubSeq(s, Len(s) - Len(suf) + 1, Len(s)) = suf

Contains(s, sub) ==
    \E i \in 1..(Len(s) - Len(sub) + 1) : SubSeq(s, i, i + Len(sub) - 1) = sub

IsDigits(s) == Len(s) > 0 /\ \A i \in 1..Len(s) : SubSeq(s, i, i) \in Digits

\* int("007") = 7: the digits without leading zeros.
RECURSIVE Canon(_)
Canon(s) == IF Len(s) > 1 /\ Head(s) = "0" THEN Canon(Tail(s)) ELSE s

MinOf(S) == CHOOSE x \in S : \A y \in S : x <= y

\* str.join: sep.join(parts).
RECURSIVE StrJoin(_, _)
StrJoin(sep, parts) ==
    IF Len(parts) = 0 THEN ""
    ELSE IF Len(parts) = 1 THEN parts[1]
    ELSE parts[1] \o sep \o StrJoin(sep, Tail(parts))

\* str.split on a one-character separator: "".split("|") is [""].
RECURSIVE StrSplit(_, _)
StrSplit(s, sep) ==
    LET at == {i \in 1..Len(s) : SubSeq(s, i, i) = sep}
    IN  IF at = {} THEN <<s>>
        ELSE <<SubSeq(s, 1, MinOf(at) - 1)>>
                 \o StrSplit(SubSeq(s, MinOf(at) + 1, Len(s)), sep)

\* Code-point order of the characters the bounded inputs use.
Alphabet == ".0123456789ABCDEFGHIJKLMNOPQRSTUVWXYZ_abcdefghijklmnopqrstuvwxyz|"

Ord(c) == CHOOSE i \in 1..Len(Alphabet) : SubSeq(Alphabet, i, i) = c

\* Python's < on str.
RECURSIVE StrLess(_, _)
StrLess(a, b) ==
    IF Len(b) = 0 THEN FALSE
    ELSE IF Len(a) = 0 THEN TRUE
    ELSE IF Head(a) = Head(b) THEN StrLess(Tail(a), Tail(b))
    ELSE Ord(Head(a)) < Ord(Head(b))

\* Python's < on tuples of str.
RECURSIVE TupleLess(_, _)
TupleLess(a, b) ==
    IF Len(b) = 0 THEN FALSE
    ELSE IF Len(a) = 0 THEN TRUE
    ELSE IF a[1] = b[1] THEN TupleLess(Tail(a), Tail(b))
    ELSE StrLess(a[1], b[1])

SeqToSet(s) == {s[i] : i \in 1..Len(s)}

\* The elements of s at the indexes in idx, in order.
RECURSIVE Pick(_, _, _)
Pick(s, idx, from) ==
    IF from > Len(s) THEN <<>>
    ELSE (IF from \in idx THEN <<s[from]>> ELSE <<>>) \o Pick(s, idx, from + 1)

RECURSIVE Flatten(_)
Flatten(ss) == IF Len(ss) = 0 THEN <<>> ELSE ss[1] \o Flatten(Tail(ss))

(***************************************************************************)
(* DataFrames                                                              *)
(***************************************************************************)

\* The value of a variable that holds no DataFrame yet.
NoDf == [cols |-> <<>>, dtypes |-> <<>>, rows |-> <<>>]

\* pd.DataFrame(columns=[...]): no rows, object columns.
EmptyFrame(cols) ==
    [cols |-> cols, dtypes |-> [i \in 1..Len(cols) |-> "object"], rows |-> <<>>]

\* DataFrame.empty: a zero-length axis.
IsEmpty(df) == Len(df.rows) = 0 \/ Len(df.cols) = 0

HasCol(df, name) == name \in SeqToSet(df.cols)

ColIndex(df, name) == MinOf({i \in 1..Len(df.cols) : df.cols[i] = name})

\* The values of the columns `on` in a row.
KeyOf(df, row, on) == [k \in 1..Len(on) |-> row[ColIndex(df, on[k])]]

\* The dtype pandas.read_csv infers for a column from its fields (integer
\* literals and text are the field kinds the bounded inputs hold).
InferDtype(fields) ==
    LET present == {i \in 1..Len(fields) : fields[i] \notin NaStrings}
    IN  IF Len(fields) = 0 THEN "object"
        ELSE IF present = {} THEN "float64"
        ELSE IF \A i \in present : IsDigits(fields[i])
             THEN (IF Cardinality(present) = Len(fields) THEN "int64" ELSE "float64")
        ELSE "object"

\* ParseField with keep_default_na=False: a blank field stays the empty string.
ParseFieldKeepBlank(dtype, field) ==
    IF dtype = "object" THEN field ELSE Canon(field)

\* One field as read_csv stores it in a column of the given dtype.
ParseField(dtype, field) ==
    IF field \in NaStrings THEN NaN
    ELSE IF dtype = "object" THEN field
    ELSE Canon(field)

\* pandas.read_csv of a header row followed by records; a file without a
\* header (no text, or blank lines only) raises EmptyDataError.
ReadCsv(file) ==
    LET dt == [j \in 1..Len(file.cols) |->
                  InferDtype([i \in 1..Len(file.rows) |-> file.rows[i][j]])]
    IN  IF Len(file.cols) = 0
        THEN [err |-> "EmptyDataError", df |-> NoDf]
        ELSE [err |-> "none",
              df  |-> [cols   |-> file.cols,
                       dtypes |-> dt,
                       rows   |-> [i \in 1..Len(file.rows) |->
                                      [j \in 1..Len(file.cols) |->
                                          ParseField(dt[j], file.rows[i][j])]]]]

\* load_csv that takes an absent file for an empty table.
load_csv_absent_as_empty(file) ==
    IF file.present THEN ReadCsv(file) ELSE [err |-> "none", df |-> NoDf]

\* load_csv: read_csv raises FileNotFoundError for an absent file, and
\* load_csv catches nothing.
load_csv(file) ==
    IF file.present
    THEN ReadCsv(file)
    ELSE [err |-> "FileNotFoundError", df |-> NoDf]

\* Series.astype(str) on a non-null cell: a float64 cell prints its ".0".
AsStr(dtype, v) == IF dtype = "float64" THEN v \o ".0" ELSE v

\* DataFrame.rename(columns=mapping): names outside the mapping are kept.
RenameCols(df, mapping) ==
    [df EXCEPT !.cols = [i \in 1..Len(df.cols) |->
        IF df.cols[i] \in DOMAIN mapping THEN mapping[df.cols[i]] ELSE df.cols[i]]]

\* DataFrame.drop(columns=names, errors='ignore').
DropCols(df, names) ==
    LET keep == {i \in 1..Len(df.cols) : df.cols[i] \notin names}
    IN  [cols   |-> Pick(df.cols, keep, 1),
         dtypes |-> Pick(df.dtypes, keep, 1),
         rows   |-> [r \in 1..Len(df.rows) |-> Pick(df.rows[r], keep, 1)]]

\* JoinedList with x.dropna().unique(): a repeated value is listed once.
JoinedListUnique(df, col, idx) ==
    LET j    == ColIndex(df, col)
        kept == {i \in idx : /\ df.rows[i][j] # NaN
                             /\ \A k \in idx : k < i => df.rows[k][j] # df.rows[i][j]}
        strs == [i \in 1..Len(df.rows) |-> AsStr(df.dtypes[j], df.rows[i][j])]
    IN  StrJoin("|", Pick(strs, kept, 1))

\* x.dropna().astype(str) of one column over the rows at idx, '|'-joined.
JoinedList(df, col, idx) ==
    LET j    == ColIndex(df, col)
        kept == {i \in idx : df.rows[i][j] # NaN}
        strs == [i \in 1..Len(df.rows) |-> AsStr(df.dtypes[j], df.rows[i][j])]
    IN  StrJoin("|", Pick(strs, kept, 1))

\* The keys of a set in ascending order (groupby sorts its group keys).
RECURSIVE SortedKeys(_)
SortedKeys(S) ==
    IF S = {} THEN <<>>
    ELSE LET m == CHOOSE x \in S : \A y \in S \ {x} : TupleLess(x, y)
         IN  <<m>> \o SortedKeys(S \ {m})

\* GroupByAgg with dropna=False: a missing group key is a group key too.
GroupByAggKeepNa(df, group_cols, code_col, desc_col) ==
    LET keys  == SortedKeys({KeyOf(df, df.rows[i], group_cols) : i \in 1..Len(df.rows)})
        members(key) == {i \in 1..Len(df.rows) : KeyOf(df, df.rows[i], group_cols) = key}
    IN  [cols   |-> group_cols \o <<code_col, desc_col>>,
         dtypes |-> [k \in 1..Len(group_cols) |->
                        df.dtypes[ColIndex(df, group_cols[k])]]
                    \o <<"object", "object">>,
         rows   |-> [g \in 1..Len(keys) |->
                        keys[g] \o <<JoinedList(df, code_col, members(keys[g])),
                                     JoinedList(df, desc_col, members(keys[g]))>>]]

\* df.groupby(group_cols, as_index=False).agg({code_col: .., desc_col: ..}):
\* rows with a missing group key are left out (dropna=True), one row per
\* group key, the rows of a group in input order.  The joined strings are
\* object columns; with no group at all the two columns keep their dtype.
GroupByAgg(df, group_cols, code_col, desc_col) ==
    LET keyed == {i \in 1..Len(df.rows) :
                    \A k \in 1..Len(group_cols) :
                        KeyOf(df, df.rows[i], group_cols)[k] # NaN}
        keys  == SortedKeys({KeyOf(df, df.rows[i], group_cols) : i \in keyed})
        members(key) == {i \in keyed : KeyOf(df, df.rows[i], group_cols) = key}
    IN  [cols   |-> group_cols \o <<code_col, desc_col>>,
         dtypes |-> [k \in 1..Len(group_cols) |->
                        df.dtypes[ColIndex(df, group_cols[k])]]
                    \o (IF Len(keys) = 0
                        THEN <<df.dtypes[ColIndex(df, code_col)],
                               df.dtypes[ColIndex(df, desc_col)]>>
                        ELSE <<"object", "object">>),
         rows   |-> [g \in 1..Len(keys) |->
                        keys[g] \o <<JoinedList(df, code_col, members(keys[g])),
                                     JoinedList(df, desc_col, members(keys[g]))>>]]

aggregate_clinical_data(df, group_cols, code_col, desc_col) ==
    IF IsEmpty(df)
    THEN [err |-> "none",
          df  |-> EmptyFrame(group_cols \o <<code_col \o "_LIST", desc_col \o "_LIST">>)]
    ELSE IF \E c \in SeqToSet(group_cols) \cup {code_col, desc_col} : ~HasCol(df, c)
    THEN [err |-> "KeyError", df |-> NoDf]
    ELSE [err |-> "none",
          df  |-> RenameCols(GroupByAgg(df, group_cols, code_col, desc_col),
                             (code_col :> code_col \o "_LIST")
                                 @@ (desc_col :> desc_col \o "_LIST"))]

(***************************************************************************)
(* pandas.merge(left, right, left_on=.., right_on=.., how='left',          *)
(* suffixes=..) with left_on and right_on naming different columns, as     *)
(* every merge of main does.                                               *)
(***************************************************************************)

NumericDtypes == {"int64", "float64"}

\* lib.infer_dtype(values, skipna=False) of a key column.
InferredKind(df, name) ==
    LET j    == ColIndex(df, name)
        nans == {i \in 1..Len(df.rows) : df.rows[i][j] = NaN}
    IN  IF df.dtypes[j] = "int64" THEN "integer"
        ELSE IF df.dtypes[j] = "float64" THEN "floating"
        ELSE IF Len(df.rows) = 0 THEN "empty"
        ELSE IF Cardinality(nans) = Len(df.rows) THEN "floating"
        ELSE IF nans = {} THEN "string"
        ELSE "mixed"

StringKinds == {"string", "unicode", "mixed", "bytes", "empty"}

BoolKinds == {"integer", "mixed-integer", "boolean", "empty"}

\* _maybe_coerce_merge_keys raises ValueError ("You are trying to merge on
\* object and float64 columns") for one pair of key columns.
KeyDtypesClash(left, lname, right, rname) ==
    LET ld == left.dtypes[ColIndex(left, lname)]
        rd == right.dtypes[ColIndex(right, rname)]
        lk == InferredKind(left, lname)
        rk == InferredKind(right, rname)
    IN  IF (Len(left.rows) = 0) # (Len(right.rows) = 0) THEN FALSE
        ELSE IF ld = rd THEN FALSE
        ELSE IF ld \in NumericDtypes /\ rd \in NumericDtypes THEN FALSE
        ELSE IF lk \in BoolKinds /\ rk \in BoolKinds THEN FALSE
        ELSE (lk \in StringKinds) # (rk \in StringKinds)

\* The labels of one side after the overlapping names took the side's suffix.
SuffixedLabels(cols, overlap, suffix) ==
    [i \in 1..Len(cols) |-> IF cols[i] \in overlap THEN cols[i] \o suffix ELSE cols[i]]

\* Suffixing made two labels of one side equal that were different before.
NewDuplicates(cols, labels) ==
    \E i, j \in 1..Len(cols) : i # j /\ labels[i] = labels[j] /\ cols[i] # cols[j]

\* The right rows a left row joins to, in right order.  Missing keys match
\* missing keys.
Matches(left, lrow, left_on, right, right_on) ==
    {j \in 1..Len(right.rows) :
        KeyOf(right, right.rows[j], right_on) = KeyOf(left, lrow, left_on)}

\* LeftJoinRows with how='inner': a left row without a match is dropped.
InnerJoinRows(left, lrow, left_on, right, right_on) ==
    LET m == Matches(left, lrow, left_on, right, right_on)
    IN  Pick([j \in 1..Len(right.rows) |-> lrow \o right.rows[j]], m, 1)

\* LeftJoinRows followed by fillna(''): an unmatched row gets empty strings.
LeftJoinRowsBlankFill(left, lrow, left_on, right, right_on) ==
    LET m == Matches(left, lrow, left_on, right, right_on)
    IN  IF m = {}
        THEN <<lrow \o [j \in 1..Len(right.cols) |-> ""]>>
        ELSE Pick([j \in 1..Len(right.rows) |-> lrow \o right.rows[j]], m, 1)

\* The rows a left join makes of one left row: one per matching right row,
\* or the left row with a missing value in every right column.
LeftJoinRows(left, lrow, left_on, right, right_on) ==
    LET m == Matches(left, lrow, left_on, right, right_on)
    IN  IF m = {}
        THEN <<lrow \o [j \in 1..Len(right.cols) |-> NaN]>>
        ELSE Pick([j \in 1..Len(right.rows) |-> lrow \o right.rows[j]], m, 1)

MergeFailed(kind) == [err |-> kind, df |-> NoDf, added |-> <<>>, suffixed |-> {}]

Merge(left, right, left_on, right_on, suffixes) ==
    LET overlap == SeqToSet(left.cols) \cap SeqToSet(right.cols)
        llabels == SuffixedLabels(left.cols, overlap, suffixes[1])
        rlabels == SuffixedLabels(right.cols, overlap, suffixes[2])
        unmatched == \E i \in 1..Len(left.rows) :
                        Matches(left, left.rows[i], left_on, right, right_on) = {}
    IN  IF \/ \E k \in 1..Len(left_on) : ~HasCol(left, left_on[k])
           \/ \E k \in 1..Len(right_on) : ~HasCol(right, right_on[k])
        THEN MergeFailed("KeyError")
        ELSE IF \E k \in 1..Len(left_on) :
                    KeyDtypesClash(left, left_on[k], right, right_on[k])
        THEN MergeFailed("ValueError")
        ELSE IF overlap # {} /\ suffixes[1] = "" /\ suffixes[2] = ""
        THEN MergeFailed("ValueError")
        ELSE IF NewDuplicates(left.cols, llabels) \/ NewDuplicates(right.cols, rlabels)
        THEN MergeFailed("MergeError")
        ELSE [err |-> "none",
              df  |-> [cols   |-> llabels \o rlabels,
                       dtypes |-> left.dtypes \o
                                  [j \in 1..Len(right.cols) |->
                                      IF unmatched /\ right.dtypes[j] = "int64"
                                      THEN "float64" ELSE right.dtypes[j]],
                       rows   |-> Flatten([i \in 1..Len(left.rows) |->
                                      LeftJoinRows(left, left.rows[i], left_on,
                                                   right, right_on)])],
              added    |-> rlabels,
              suffixed |-> {llabels[i] : i \in {k \in 1..Len(llabels) :
                                                   llabels[k] # left.cols[k]}}
                           \cup {rlabels[i] : i \in {k \in 1..Len(rlabels) :
                                                   rlabels[k] # right.cols[k]}}]

(***************************************************************************)
(* The steps of main, in program order                                     *)
(***************************************************************************)

\* The ten tables in the order main loads them.
TableNames ==
    <<"claims", "claims_transactions", "encounters", "patients", "providers",
      "organizations", "payers", "procedures", "conditions", "medications">>

FactKinds == <<"procedures", "conditions", "medications">>

LoadSteps == [i \in 1..Len(TableNames) |-> "load_" \o TableNames[i]]

AggregateSteps == [i \in 1..Len(FactKinds) |-> "aggregate_" \o FactKinds[i]]

JoinSteps ==
    <<"join_claims", "join_encounters", "join_patients", "join_providers",
      "join_organizations", "join_payers", "join_procedures", "join_conditions",
      "join_medications">>

Steps ==
    LoadSteps \o <<"prepare">> \o AggregateSteps \o JoinSteps \o <<"cleanup", "save", "done">>

StepIndex(step) == CHOOSE i \in 1..Len(Steps) : Steps[i] = step

After(step) == Steps[StepIndex(step) + 1]

PreparedNames ==
    {"patients_renamed", "providers_renamed", "organizations_renamed",
     "payers_renamed", "procedures_agg", "conditions_agg", "medications_agg",
     "claims_renamed", "encounters_renamed"}

NoError == [kind |-> "none", at |-> "none"]

NoOutput == [exists |-> FALSE, df |-> NoDf]

NoProvenance == [s \in SeqToSet(JoinSteps) |-> [added |-> <<>>, suffixed |-> {}]]

\* An exception leaves main: nothing after the failing statement runs.
Abort(kind) ==
    /\ pc' = "aborted"
    /\ err' = [kind |-> kind, at |-> pc]

(***************************************************************************)
(* Step 1: the ten load_csv calls                                          *)
(***************************************************************************)

LoadCsv ==
    /\ pc \in SeqToSet(LoadSteps)
    /\ LET name == TableNames[StepIndex(pc)]
           r    == load_csv(files[name])
       IN  IF r.err = "none"
           THEN /\ tables' = [tables EXCEPT ![name] = r.df]
                /\ pc' = After(pc)
                /\ err' = err
           ELSE /\ Abort(r.err)
                /\ tables' = tables
    /\ UNCHANGED <<files, prepared, joined, written, prov>>

(***************************************************************************)
(* Step 2: the reference tables with prefixed column names                 *)
(***************************************************************************)

\* NamespaceCols that leaves a name alone that already carries a prefix.
NamespaceColsSkipPrefixed(df, prefix) ==
    RenameCols(df, [c \in SeqToSet(df.cols) |->
                       IF c # "Id" /\ ~Contains(c, "_") THEN prefix \o c ELSE c])

\* df.rename(columns={col: f'{prefix}{col}' if col != 'Id' else col ...}).
NamespaceCols(df, prefix) ==
    RenameCols(df, [c \in SeqToSet(df.cols) |-> IF c # "Id" THEN prefix \o c ELSE c])

PatientPrefix == "PATIENT_"

ProviderPrefix == "PROVIDER_"

OrganizationPrefix == "ORG_"

PayerPrefix == "PAYER_"

NamespacedTables(t) ==
    [patients_renamed      |-> NamespaceCols(t["patients"], PatientPrefix),
     providers_renamed     |-> NamespaceCols(t["providers"], ProviderPrefix),
     organizations_renamed |-> NamespaceCols(t["organizations"], OrganizationPrefix),
     payers_renamed        |-> NamespaceCols(t["payers"], PayerPrefix)]

PrepareReferenceTables ==
    /\ pc = "prepare"
    /\ prepared' = [n \in PreparedNames |->
                       IF n \in DOMAIN NamespacedTables(tables)
                       THEN NamespacedTables(tables)[n] ELSE prepared[n]]
    /\ pc' = After(pc)
    /\ UNCHANGED <<files, tables, joined, written, err, prov>>

(***************************************************************************)
(* Step 3: the clinical facts aggregated by encounter                      *)
(***************************************************************************)

\* PROCEDURE for procedures, CONDITION for conditions, ...
FactPrefix(kind) ==
    IF kind = "procedures" THEN "PROCEDURE"
    ELSE IF kind = "conditions" THEN "CONDITION"
    ELSE "MEDICATION"

\* EmptyAggregate without the two key columns.
EmptyAggregateNoKeys(kind) ==
    EmptyFrame(<<FactPrefix(kind) \o "_CODES", FactPrefix(kind) \o "_DESCRIPTIONS">>)

\* The else branch: pd.DataFrame(columns=['PATIENT', 'ENCOUNTER', ...]).
EmptyAggregate(kind) ==
    EmptyFrame(<<"PATIENT", "ENCOUNTER",
                 FactPrefix(kind) \o "_CODES", FactPrefix(kind) \o "_DESCRIPTIONS">>)

\* One "if not <facts>.empty: ... else: ..." block of main.
FactAggregate(df, kind) ==
    IF ~IsEmpty(df)
    THEN LET r == aggregate_clinical_data(df, <<"PATIENT", "ENCOUNTER">>,
                                          "CODE", "DESCRIPTION")
         IN  IF r.err # "none" THEN r
             ELSE [err |-> "none",
                   df  |-> RenameCols(r.df,
                              ("CODE_LIST" :> FactPrefix(kind) \o "_CODES")
                              @@ ("DESCRIPTION_LIST" :> FactPrefix(kind) \o "_DESCRIPTIONS"))]
    ELSE [err |-> "none", df |-> EmptyAggregate(kind)]

AggregateClinical ==
    /\ pc \in SeqToSet(AggregateSteps)
    /\ LET kind == SubSeq(pc, Len("aggregate_") + 1, Len(pc))
           r    == FactAggregate(tables[kind], kind)
       IN  IF r.err = "none"
           THEN /\ prepared' = [prepared EXCEPT ![kind \o "_agg"] = r.df]
                /\ pc' = After(pc)
                /\ err' = err
           ELSE /\ Abort(r.err)
                /\ prepared' = prepared
    /\ UNCHANGED <<files, tables, joined, written, prov>>

(***************************************************************************)
(* Steps 4 to 10: the nine left merges                                     *)
(***************************************************************************)

\* A merge of main followed by its drop(columns=drops, errors='ignore');
\* `left` is the table merged into, `right` the table merged in.
JoinInto(left, right, left_on, right_on, suffixes, drops) ==
    LET m == Merge(left, right, left_on, right_on, suffixes)
    IN  IF m.err = "none"
        THEN /\ joined' = DropCols(m.df, drops)
             /\ prov' = [prov EXCEPT ![pc] = [added |-> m.added, suffixed |-> m.suffixed]]
             /\ pc' = After(pc)
             /\ err' = err
        ELSE /\ Abort(m.err)
             /\ UNCHANGED <<joined, prov>>

ClaimsRenames ==
    ("Id" :> "CLAIM_ID") @@ ("PATIENTID" :> "CLAIM_PATIENTID")
    @@ ("PROVIDERID" :> "CLAIM_PROVIDERID") @@ ("DEPARTMENTID" :> "CLAIM_DEPARTMENTID")
    @@ ("APPOINTMENTID" :> "CLAIM_APPOINTMENTID")
    @@ ("SUPERVISINGPROVIDERID" :> "CLAIM_SUPERVISINGPROVIDERID")

\* Step 4: pd.merge with the default suffixes ('_x', '_y').
JoinClaims ==
    /\ pc = "join_claims"
    /\ prepared' = [prepared EXCEPT
                       !["claims_renamed"] = RenameCols(tables["claims"], ClaimsRenames)]
    /\ JoinInto(tables["claims_transactions"], prepared'["claims_renamed"],
                <<"CLAIMID">>, <<"CLAIM_ID">>, <<"_x", "_y">>, {})
    /\ UNCHANGED <<files, tables, written>>

EncountersRenames ==
    ("Id" :> "ENCOUNTER_ID") @@ ("START" :> "ENCOUNTER_START")
    @@ ("STOP" :> "ENCOUNTER_STOP") @@ ("CODE" :> "ENCOUNTER_CODE")
    @@ ("DESCRIPTION" :> "ENCOUNTER_DESCRIPTION")
    @@ ("REASONCODE" :> "ENCOUNTER_REASONCODE")
    @@ ("REASONDESCRIPTION" :> "ENCOUNTER_REASONDESCRIPTION")

\* Step 5.
JoinEncounters ==
    /\ pc = "join_encounters"
    /\ prepared' = [prepared EXCEPT
                       !["encounters_renamed"] =
                           RenameCols(tables["encounters"], EncountersRenames)]
    /\ JoinInto(joined, prepared'["encounters_renamed"],
                <<"CLAIM_APPOINTMENTID">>, <<"ENCOUNTER_ID">>, <<"", "_ENC">>, {})
    /\ UNCHANGED <<files, tables, written>>

\* Step 6.
JoinPatients ==
    /\ pc = "join_patients"
    /\ JoinInto(joined, prepared["patients_renamed"],
                <<"CLAIM_PATIENTID">>, <<"Id">>, <<"", "_PAT">>, {"Id"})
    /\ UNCHANGED <<files, tables, prepared, written>>

\* Step 7: PROVIDERID is the transaction's column, not the claim's.
JoinProviders ==
    /\ pc = "join_providers"
    /\ JoinInto(joined, prepared["providers_renamed"],
                <<"PROVIDERID">>, <<"Id">>, <<"", "_PROV">>, {"Id"})
    /\ UNCHANGED <<files, tables, prepared, written>>

\* Step 8.
JoinOrganizations ==
    /\ pc = "join_organizations"
    /\ JoinInto(joined, prepared["organizations_renamed"],
                <<"ORGANIZATION">>, <<"Id">>, <<"", "_ORG">>, {"Id"})
    /\ UNCHANGED <<files, tables, prepared, written>>

\* Step 9.
JoinPayers ==
    /\ pc = "join_payers"
    /\ JoinInto(joined, prepared["payers_renamed"],
                <<"PAYER">>, <<"Id">>, <<"", "_PAYER">>, {"Id"})
    /\ UNCHANGED <<files, tables, prepared, written>>

ClinicalLeftOn == <<"CLAIM_PATIENTID", "ENCOUNTER_ID">>

ClinicalRightOn == <<"PATIENT", "ENCOUNTER">>

\* Step 10, procedures.
JoinProcedures ==
    /\ pc = "join_procedures"
    /\ JoinInto(joined, prepared["procedures_agg"], ClinicalLeftOn, ClinicalRightOn,
                <<"", "_PROC">>, {"PATIENT", "ENCOUNTER"})
    /\ UNCHANGED <<files, tables, prepared, written>>

\* Step 10, conditions.
JoinConditions ==
    /\ pc = "join_conditions"
    /\ JoinInto(joined, prepared["conditions_agg"], ClinicalLeftOn, ClinicalRightOn,
                <<"", "_COND">>, {"PATIENT", "ENCOUNTER"})
    /\ UNCHANGED <<files, tables, prepared, written>>

\* Step 10, medications.
JoinMedications ==
    /\ pc = "join_medications"
    /\ JoinInto(joined, prepared["medications_agg"], ClinicalLeftOn, ClinicalRightOn,
                <<"", "_MED">>, {"PATIENT", "ENCOUNTER"})
    /\ UNCHANGED <<files, tables, prepared, written>>

(***************************************************************************)
(* Steps 11 and 12: the cleanup and the save                               *)
(***************************************************************************)

\* [col for col in joined.columns if col.endswith('_x') or col.endswith('_y')]
DuplicateCols(df) ==
    {c \in SeqToSet(df.cols) : EndsWith(c, "_x") \/ EndsWith(c, "_y")}

CleanUp ==
    /\ pc = "cleanup"
    /\ joined' = IF DuplicateCols(joined) # {}
                 THEN DropCols(joined, DuplicateCols(joined)) ELSE joined
    /\ pc' = After(pc)
    /\ UNCHANGED <<files, tables, prepared, written, err, prov>>

\* joined.to_csv(output_path, index=False); main returns joined.
Save ==
    /\ pc = "save"
    /\ written' = [exists |-> TRUE, df |-> joined]
    /\ pc' = After(pc)
    /\ UNCHANGED <<files, tables, prepared, joined, err, prov>>

(***************************************************************************)
(* The input directory: ten CSV files, each a header and records of text   *)
(* fields ("" is a blank field), or absent.                                *)
(***************************************************************************)

File(cols, rows) == [present |-> TRUE, cols |-> cols, rows |-> rows]

Absent == [present |-> FALSE, cols |-> <<>>, rows |-> <<>>]

FactCols == <<"PATIENT", "ENCOUNTER", "CODE", "DESCRIPTION">>

\* A well-formed export: two transactions on one claim, every key matched.
Baseline(name) ==
    CASE name = "claims" ->
           File(<<"Id", "PATIENTID", "PROVIDERID", "APPOINTMENTID", "STATUS">>,
                <<<<"C1", "P1", "PR1", "E1", "CLOSED">>>>)
      [] name = "claims_transactions" ->
           File(<<"Id", "CLAIMID", "PATIENTID", "PROVIDERID">>,
                <<<<"T1", "C1", "P1", "PR1">>, <<"T2", "C1", "P1", "PR1">>>>)
      [] name = "encounters" ->
           File(<<"Id", "PATIENT", "ORGANIZATION", "PAYER", "CODE">>,
                <<<<"E1", "P1", "O1", "PY1", "9">>>>)
      [] name = "patients" -> File(<<"Id", "GENDER">>, <<<<"P1", "F">>>>)
      [] name = "providers" -> File(<<"Id", "NAME">>, <<<<"PR1", "Dr">>>>)
      [] name = "organizations" -> File(<<"Id", "NAME">>, <<<<"O1", "Clinic">>>>)
      [] name = "payers" -> File(<<"Id", "NAME">>, <<<<"PY1", "Medicare">>>>)
      [] name = "procedures" ->
           File(FactCols, <<<<"P1", "E1", "1", "x">>, <<"P1", "E1", "2", "y">>>>)
      [] name = "conditions" -> File(FactCols, <<<<"P1", "E1", "3", "Flu">>>>)
      [] name = "medications" -> File(FactCols, <<<<"P1", "E1", "4", "z">>>>)

\* The ways one file departs from the baseline: absent, without any text,
\* a header without records, a duplicated key, an unmatched or blank key, a
\* missing or extra column.
Variants(name) ==
    {Absent, File(<<>>, <<>>), File(Baseline(name).cols, <<>>)} \cup
    CASE name = "claims" ->
           {File(Baseline(name).cols,
                 <<<<"C1", "P1", "PR1", "E1", "CLOSED">>, <<"C1", "P1", "PR1", "E2", "OPEN">>>>),
            File(Baseline(name).cols, <<<<"C1", "P1", "PR1", "E9", "CLOSED">>>>),
            File(Baseline(name).cols,
                 <<<<"C1", "P1", "PR1", "E1", "CLOSED">>, <<"C2", "P1", "PR1", "", "OPEN">>>>),
            File(Baseline(name).cols,
                 <<<<"C1", "P1", "PR1", "E1", "CLOSED">>, <<"C2", "P2", "PR1", "E2", "OPEN">>>>),
            File(<<"Id", "PATIENTID", "PROVIDERID", "STATUS">>,
                 <<<<"C1", "P1", "PR1", "CLOSED">>>>)}
      [] name = "claims_transactions" ->
           {File(Baseline(name).cols,
                 <<<<"T1", "C1", "P1", "PR1">>, <<"T2", "C2", "P1", "PR2">>>>),
            File(Baseline(name).cols,
                 <<<<"T1", "C1", "P1", "PR1">>, <<"T2", "", "P1", "">>>>),
            File(Baseline(name).cols, <<<<"T1", "", "P1", "PR1">>>>),
            File(<<"ID", "CLAIMID", "PATIENTID", "PROVIDERID">>,
                 <<<<"T1", "C1", "P1", "PR1">>, <<"T2", "C1", "P1", "PR1">>>>),
            File(<<"Id", "CLAIMID", "PATIENTID", "PROVIDERID", "STATUS">>,
                 <<<<"T1", "C1", "P1", "PR1", "PAID">>>>),
            File(<<"Id", "PATIENTID", "PROVIDERID">>, <<<<"T1", "P1", "PR1">>>>)}
      [] name = "encounters" ->
           {File(Baseline(name).cols,
                 <<<<"E1", "P1", "O1", "PY1", "9">>, <<"E1", "P1", "O2", "PY1", "8">>>>),
            File(Baseline(name).cols,
                 <<<<"E1", "P1", "", "PY2", "9">>, <<"E2", "P2", "O1", "PY1", "">>>>),
            File(Baseline(name).cols,
                 <<<<"", "P1", "O1", "PY1", "9">>, <<"E1", "P1", "O1", "PY1", "9">>>>),
            File(<<"Id", "ORGANIZATION", "PAYER", "CODE">>, <<<<"E1", "O1", "PY1", "9">>>>),
            File(<<"Id", "PATIENT", "PAYER", "CODE">>, <<<<"E1", "P1", "PY1", "9">>>>)}
      [] name = "patients" ->
           {File(Baseline(name).cols, <<<<"P1", "F">>, <<"P1", "M">>>>),
            File(Baseline(name).cols, <<<<"P2", "M">>>>),
            File(Baseline(name).cols, <<<<"", "M">>, <<"P1", "F">>>>)}
      [] name = "providers" ->
           {File(Baseline(name).cols, <<<<"PR1", "Dr">>, <<"PR1", "Nurse">>>>),
            File(Baseline(name).cols, <<<<"PR2", "Dr">>, <<"", "Nurse">>>>),
            File(<<"NAME">>, <<<<"Dr">>>>)}
      [] name = "organizations" ->
           {File(Baseline(name).cols, <<<<"O1", "Clinic">>, <<"O1", "Lab">>>>)}
      [] name = "payers" ->
           {File(Baseline(name).cols, <<<<"PY1", "Medicare">>, <<"PY1", "Aetna">>>>),
            File(Baseline(name).cols, <<<<"PY2", "Aetna">>>>)}
      [] name = "procedures" ->
           {File(FactCols, <<<<"P1", "E2", "1", "x">>, <<"P2", "E1", "2", "y">>>>),
            File(FactCols, <<<<"P1", "E1", "1", "">>, <<"P1", "E1", "", "y">>>>),
            File(FactCols, <<<<"P1", "", "1", "x">>, <<"P1", "E1", "2", "y">>>>),
            File(<<"PATIENT", "ENCOUNTER", "DESCRIPTION">>, <<<<"P1", "E1", "x">>>>)}
      [] name = "conditions" ->
           {File(FactCols, <<<<"P1", "E1", "", "">>>>)}
      [] name = "medications" ->
           {File(FactCols, <<<<"P2", "E1", "4", "z">>>>)}

\* At most this many of the ten files depart from the baseline in one run.
MaxDeviations == 2

\* The directories whose first k files hold at most d departures, as
\* sequences parallel to TableNames.
RECURSIVE Directories(_, _)
Directories(k, d) ==
    IF k = 0 THEN {<<>>}
    ELSE {Append(dir, Baseline(TableNames[k])) : dir \in Directories(k - 1, d)}
         \cup (IF d = 0 THEN {}
               ELSE {Append(p[1], p[2]) :
                        p \in Directories(k - 1, d - 1) \X Variants(TableNames[k])})

InputSets ==
    {[n \in SeqToSet(TableNames) |-> dir[CHOOSE i \in 1..Len(TableNames) : TableNames[i] = n]] :
        dir \in Directories(Len(TableNames), MaxDeviations)}

(***************************************************************************)
(* The run of main                                                         *)
(***************************************************************************)

Init ==
    /\ files \in InputSets
    /\ pc = Steps[1]
    /\ tables = [n \in SeqToSet(TableNames) |-> NoDf]
    /\ prepared = [n \in PreparedNames |-> NoDf]
    /\ joined = NoDf
    /\ written = NoOutput
    /\ err = NoError
    /\ prov = NoProvenance

Next ==
    \/ LoadCsv
    \/ PrepareReferenceTables
    \/ AggregateClinical
    \/ JoinClaims
    \/ JoinEncounters
    \/ JoinPatients
    \/ JoinProviders
    \/ JoinOrganizations
    \/ JoinPayers
    \/ JoinProcedures
    \/ JoinConditions
    \/ JoinMedications
    \/ CleanUp
    \/ Save

Spec == Init /\ [][Next]_vars

(***************************************************************************)
(* aggregate_clinical_data on its own: a fact file of up to MaxFacts       *)
(* records is loaded and aggregated.                                       *)
(***************************************************************************)

MaxFacts == 3

\* (PATIENT, ENCOUNTER) fields: two pairs, a blank PATIENT, a blank ENCOUNTER.
FactPairs == {<<"P1", "E1">>, <<"P2", "E1">>, <<"", "E1">>, <<"P1", "">>}

\* (CODE, DESCRIPTION) fields: blank ones, and a description holding a '|'.
FactValues ==
    {<<"123", "Flu">>, <<"456", "">>, <<"789", "Cold">>, <<"", "a|b">>, <<"", "">>}

FactRows == {p[1] \o p[2] : p \in FactPairs \X FactValues}

RECURSIVE SeqsUpTo(_, _)
SeqsUpTo(S, n) ==
    IF n = 0 THEN {<<>>}
    ELSE SeqsUpTo(S, n - 1)
         \cup {Append(p[1], p[2]) :
                  p \in {q \in SeqsUpTo(S, n - 1) : Len(q) = n - 1} \X S}

FactFiles == {File(FactCols, rows) : rows \in SeqsUpTo(FactRows, MaxFacts)}

BaselineFiles == [n \in SeqToSet(TableNames) |-> Baseline(n)]

AggInit ==
    /\ \E f \in FactFiles : files = [BaselineFiles EXCEPT !["procedures"] = f]
    /\ pc = "fact_csv"
    /\ tables = [n \in SeqToSet(TableNames) |-> NoDf]
    /\ prepared = [n \in PreparedNames |-> NoDf]
    /\ joined = NoDf
    /\ written = NoOutput
    /\ err = NoError
    /\ prov = NoProvenance

\* load_csv of the fact file.
AggLoad ==
    /\ pc = "fact_csv"
    /\ LET r == load_csv(files["procedures"])
       IN  IF r.err = "none"
           THEN /\ tables' = [tables EXCEPT !["procedures"] = r.df]
                /\ pc' = "fact_loaded"
                /\ err' = err
           ELSE /\ pc' = "aborted"
                /\ err' = [kind |-> r.err, at |-> "load_procedures"]
                /\ tables' = tables
    /\ UNCHANGED <<files, prepared, joined, written, prov>>

\* aggregate_clinical_data(procedures, ['PATIENT', 'ENCOUNTER'], 'CODE', 'DESCRIPTION').
AggApply ==
    /\ pc = "fact_loaded"
    /\ prepared' = [prepared EXCEPT !["procedures_agg"] =
            aggregate_clinical_data(tables["procedures"], <<"PATIENT", "ENCOUNTER">>,
                                    "CODE", "DESCRIPTION").df]
    /\ pc' = "fact_aggregated"
    /\ UNCHANGED <<files, tables, joined, written, err, prov>>

AggNext == AggLoad \/ AggApply

AggSpec == AggInit /\ [][AggNext]_vars

(***************************************************************************)
(* The namespacing of step 2 on its own: the four dimension files carry    *)
(* any of the column names of ColumnNames.                                 *)
(***************************************************************************)

DimensionNames == <<"patients", "providers", "organizations", "payers">>

\* Header names a dimension file may carry: the key, a plain name, and names
\* that already start with another table's prefix.
ColumnNames == <<"Id", "NAME", "ORG_NAME", "PATIENT_NAME">>

\* A dimension file with the given header and one record.
DimensionFile(idx) ==
    File(Pick(ColumnNames, idx, 1), <<Pick([i \in 1..Len(ColumnNames) |-> "v"], idx, 1)>>)

DimensionFiles == {DimensionFile(idx) : idx \in SUBSET (1..Len(ColumnNames))}

NsInit ==
    /\ \E d \in [SeqToSet(DimensionNames) -> DimensionFiles] :
          files = [n \in SeqToSet(TableNames) |->
                      IF n \in DOMAIN d THEN d[n] ELSE Baseline(n)]
    /\ pc = "dimension_csv"
    /\ tables = [n \in SeqToSet(TableNames) |-> NoDf]
    /\ prepared = [n \in PreparedNames |-> NoDf]
    /\ joined = NoDf
    /\ written = NoOutput
    /\ err = NoError
    /\ prov = NoProvenance

\* load_csv of the four dimension files, in the order of main; the first
\* load that raises ends the run, the files after it are not read.
NsLoad ==
    /\ pc = "dimension_csv"
    /\ LET failed == {i \in 1..Len(DimensionNames) :
                         load_csv(files[DimensionNames[i]]).err # "none"}
           stop   == IF failed = {} THEN Len(DimensionNames) + 1 ELSE MinOf(failed)
       IN  /\ tables' = [n \in SeqToSet(TableNames) |->
                            IF \E i \in 1..(stop - 1) : DimensionNames[i] = n
                            THEN load_csv(files[n]).df ELSE tables[n]]
           /\ IF failed = {}
              THEN pc' = "dimension_loaded" /\ err' = err
              ELSE /\ pc' = "aborted"
                   /\ err' = [kind |-> load_csv(files[DimensionNames[stop]]).err,
                              at   |-> "load_" \o DimensionNames[stop]]
    /\ UNCHANGED <<files, prepared, joined, written, prov>>

\* The four renames of step 2.
NsRename ==
    /\ pc = "dimension_loaded"
    /\ prepared' = [n \in PreparedNames |->
                       IF n \in DOMAIN NamespacedTables(tables)
                       THEN NamespacedTables(tables)[n] ELSE prepared[n]]
    /\ pc' = "dimension_renamed"
    /\ UNCHANGED <<files, tables, joined, written, err, prov>>

NsNext == NsLoad \/ NsRename

NsSpec == NsInit /\ [][NsNext]_vars

(***************************************************************************)
(* Properties                                                              *)
(***************************************************************************)

\* The step main is at, or was at when it aborted.
Position == IF pc = "aborted" THEN err.at ELSE pc

\* The step ran to its end.
Completed(step) == StepIndex(Position) > StepIndex(step)

Transactions == tables["claims_transactions"]

\* No two rows of the table share a value of the key column.
UniqueKey(df, key) ==
    /\ HasCol(df, key)
    /\ \A i, j \in 1..Len(df.rows) :
          i # j => df.rows[i][ColIndex(df, key)] # df.rows[j][ColIndex(df, key)]

KeyedTables == {"claims", "encounters", "patients", "providers", "organizations", "payers"}

ValidInputSet == \A n \in KeyedTables : UniqueKey(tables[n], "Id")

\* C1: when Claim, Encounter, Patient, Provider, Organization and Payer each
\* have unique Id values, the result after every one of the nine left joins,
\* and the table main writes and returns, has exactly as many rows as the
\* ClaimTransaction table.
C1_RowCountPreserved ==
    (Completed("join_claims") /\ ValidInputSet) =>
        /\ Len(joined.rows) = Len(Transactions.rows)
        /\ written.exists => Len(written.df.rows) = Len(Transactions.rows)

\* A finished run over uniquely keyed tables with two transactions, one of
\* them without a claim.
C1_Witness ==
    /\ pc = "done"
    /\ ValidInputSet
    /\ Len(written.df.rows) = 2
    /\ \E r \in 1..Len(written.df.rows) :
          written.df.rows[r][ColIndex(written.df, "CLAIM_ID")] = NaN

\* The right-hand table and key of every join step.
RightTable(step) ==
    CASE step = "join_claims" -> prepared["claims_renamed"]
      [] step = "join_encounters" -> prepared["encounters_renamed"]
      [] step = "join_patients" -> prepared["patients_renamed"]
      [] step = "join_providers" -> prepared["providers_renamed"]
      [] step = "join_organizations" -> prepared["organizations_renamed"]
      [] step = "join_payers" -> prepared["payers_renamed"]
      [] step = "join_procedures" -> prepared["procedures_agg"]
      [] step = "join_conditions" -> prepared["conditions_agg"]
      [] step = "join_medications" -> prepared["medications_agg"]

RightOn(step) ==
    CASE step = "join_claims" -> <<"CLAIM_ID">>
      [] step = "join_encounters" -> <<"ENCOUNTER_ID">>
      [] step \in {"join_patients", "join_providers", "join_organizations", "join_payers"}
           -> <<"Id">>
      [] OTHER -> ClinicalRightOn

LeftOn(step) ==
    CASE step = "join_claims" -> <<"CLAIMID">>
      [] step = "join_encounters" -> <<"CLAIM_APPOINTMENTID">>
      [] step = "join_patients" -> <<"CLAIM_PATIENTID">>
      [] step = "join_providers" -> <<"PROVIDERID">>
      [] step = "join_organizations" -> <<"ORGANIZATION">>
      [] step = "join_payers" -> <<"PAYER">>
      [] OTHER -> ClinicalLeftOn

\* Two rows of the step's right-hand table share a key.
DuplicateRightKey(step) ==
    \E i, j \in 1..Len(RightTable(step).rows) :
        /\ i # j
        /\ KeyOf(RightTable(step), RightTable(step).rows[i], RightOn(step))
             = KeyOf(RightTable(step), RightTable(step).rows[j], RightOn(step))

\* C2: a right-hand table with two rows of the same key makes the run raise
\* before that join executes, and no output holds more rows than there are
\* transactions.
C2_DuplicateKeysRaise ==
    /\ \A k \in 1..Len(JoinSteps) :
          Completed(JoinSteps[k]) =>
              ~(\A c \in SeqToSet(RightOn(JoinSteps[k])) : HasCol(RightTable(JoinSteps[k]), c))
              \/ ~DuplicateRightKey(JoinSteps[k])
    /\ written.exists => Len(written.df.rows) <= Len(Transactions.rows)

AnyFileAbsent == \E n \in SeqToSet(TableNames) : ~files[n].present

\* Every file that is there is a header row followed by records.
HeaderInEveryFile ==
    \A n \in SeqToSet(TableNames) : files[n].present => Len(files[n].cols) > 0

\* C3: with a table file absent the run aborts during the loads, before any
\* join, with the missing-file error at the load of an absent file, which is
\* the error of the run whenever the files that are there are tables with a
\* header; an aborted run has written nothing; and the output exists only
\* once every step up to the cleanup has run, and is the cleaned-up join
\* result.
C3_AllOrNothing ==
    /\ AnyFileAbsent =>
          /\ ~Completed("load_medications")
          /\ joined = NoDf
          /\ pc = "aborted" =>
                /\ err.at \in SeqToSet(LoadSteps)
                /\ err.kind = "FileNotFoundError"
                      <=> ~files[TableNames[StepIndex(err.at)]].present
                /\ HeaderInEveryFile => err.kind = "FileNotFoundError"
    /\ pc = "aborted" => ~written.exists /\ err.kind # "none"
    /\ written.exists =>
          /\ pc = "done"
          /\ err = NoError
          /\ \A k \in 1..(Len(Steps) - 1) : Completed(Steps[k])
          /\ written.df = joined
          /\ DuplicateCols(written.df) = {}

\* A run that loaded some tables, found the next file absent and stopped
\* with nothing written.
C3_Witness ==
    /\ pc = "aborted"
    /\ err.kind = "FileNotFoundError"
    /\ Completed("load_claims")
    /\ ~written.exists

(***************************************************************************)
(* Properties of the aggregate (checked under AggSpec)                     *)
(***************************************************************************)

Facts == tables["procedures"]

Aggregate == prepared["procedures_agg"]

Aggregated == pc = "fact_aggregated"

GroupCols == <<"PATIENT", "ENCOUNTER">>

\* The loaded fact rows of a (PATIENT, ENCOUNTER) pair.
RowsOfPair(key) ==
    {i \in 1..Len(Facts.rows) : KeyOf(Facts, Facts.rows[i], GroupCols) = key}

\* str() of the non-null values of a column over the fact rows of a pair, in
\* input row order.
RECURSIVE ValuesFrom(_, _, _)
ValuesFrom(col, key, i) ==
    IF i > Len(Facts.rows) THEN <<>>
    ELSE (IF i \in RowsOfPair(key) /\ Facts.rows[i][ColIndex(Facts, col)] # NaN
          THEN <<AsStr(Facts.dtypes[ColIndex(Facts, col)],
                       Facts.rows[i][ColIndex(Facts, col)])>>
          ELSE <<>>)
         \o ValuesFrom(col, key, i + 1)

AggregateKey(g) == KeyOf(Aggregate, Aggregate.rows[g], GroupCols)

AggregateCell(g, col) == Aggregate.rows[g][ColIndex(Aggregate, col)]

\* The original statement of C4: the list of every aggregate row, split on
\* '|', is the sequence of the pair's non-null values.
C4_SplitIsValues ==
    Aggregated =>
        \A g \in 1..Len(Aggregate.rows) :
            /\ StrSplit(AggregateCell(g, "CODE_LIST"), "|")
                 = ValuesFrom("CODE", AggregateKey(g), 1)
            /\ StrSplit(AggregateCell(g, "DESCRIPTION_LIST"), "|")
                 = ValuesFrom("DESCRIPTION", AggregateKey(g), 1)

\* The list of one column of one aggregate row, against the pair's values.
ListMatchesValues(g, col) ==
    LET values == ValuesFrom(col, AggregateKey(g), 1)
        list   == AggregateCell(g, col \o "_LIST")
    IN  /\ Len(values) = 0 => list = ""
        /\ (Len(values) > 0 /\ \A k \in 1..Len(values) : ~Contains(values[k], "|"))
              => StrSplit(list, "|") = values

\* C4 as amended: for every aggregate row whose pair has at least one non-null
\* CODE and whose non-null CODE values hold no '|', the code list split on
\* '|' is exactly the str() of those values in input row order; a pair with no
\* non-null CODE has the empty string as its code list.  Likewise for
\* DESCRIPTION.
C4_SplitIsValuesWhenUnambiguous ==
    Aggregated =>
        \A g \in 1..Len(Aggregate.rows) :
            ListMatchesValues(g, "CODE") /\ ListMatchesValues(g, "DESCRIPTION")

\* A pair whose two facts are listed in input order, not in sorted order.
C4_Witness ==
    /\ Aggregated
    /\ \E g \in 1..Len(Aggregate.rows) :
          /\ AggregateCell(g, "CODE_LIST") = "789|123"
          /\ AggregateCell(g, "DESCRIPTION_LIST") = "Cold|Flu"

\* The aggregate rows that carry the key of a fact row.
RowsForKey(key) == {g \in 1..Len(Aggregate.rows) : AggregateKey(g) = key}

\* The original statement of C5: every pair of a fact row, a pair with a
\* missing PATIENT or ENCOUNTER included, has exactly one aggregate row, and
\* every aggregate row is the row of some fact row's pair.
C5_OneRowPerPair ==
    Aggregated =>
        /\ \A i \in 1..Len(Facts.rows) :
              Cardinality(RowsForKey(KeyOf(Facts, Facts.rows[i], GroupCols))) = 1
        /\ \A g \in 1..Len(Aggregate.rows) : RowsOfPair(AggregateKey(g)) # {}

HasMissingKey(key) == \E k \in 1..Len(key) : key[k] = NaN

\* C5 as amended: the aggregate holds exactly one row for a pair if and only
\* if at least one fact row has that pair with both PATIENT and ENCOUNTER
\* present (pairs all of whose codes are null included); a fact row whose
\* PATIENT or ENCOUNTER is missing has no aggregate row.
C5_OneRowPerCompletePair ==
    Aggregated =>
        /\ \A i \in 1..Len(Facts.rows) :
              LET key == KeyOf(Facts, Facts.rows[i], GroupCols)
              IN  Cardinality(RowsForKey(key)) = (IF HasMissingKey(key) THEN 0 ELSE 1)
        /\ \A g \in 1..Len(Aggregate.rows) :
              ~HasMissingKey(AggregateKey(g)) /\ RowsOfPair(AggregateKey(g)) # {}

\* A fact row with a missing PATIENT beside a pair all of whose codes are null.
C5_Witness ==
    /\ Aggregated
    /\ \E i \in 1..Len(Facts.rows) : Facts.rows[i][ColIndex(Facts, "PATIENT")] = NaN
    /\ \E g \in 1..Len(Aggregate.rows) : AggregateCell(g, "CODE_LIST") = ""

FactFile == files["procedures"]

\* The fields of one column of the file's records of a pair that are not
\* blank, in record order.
RECURSIVE FieldsFrom(_, _, _)
FieldsFrom(j, key, i) ==
    IF i > Len(FactFile.rows) THEN <<>>
    ELSE (IF /\ ParseField("object", FactFile.rows[i][1]) = key[1]
             /\ ParseField("object", FactFile.rows[i][2]) = key[2]
             /\ FactFile.rows[i][j] # ""
          THEN <<FactFile.rows[i][j]>> ELSE <<>>)
         \o FieldsFrom(j, key, i + 1)

\* C6: a blank field of the file never becomes a segment of a list: the
\* description list of a pair is its non-blank DESCRIPTION fields joined by
\* '|', no list holds an empty segment between two '|', and the code list has
\* one segment per non-blank CODE field, each starting with that field,
\* whatever descriptions were blank.
C6_BlanksDropped ==
    Aggregated =>
        \A g \in 1..Len(Aggregate.rows) :
            LET codes == FieldsFrom(3, AggregateKey(g), 1)
                descs == FieldsFrom(4, AggregateKey(g), 1)
                clist == AggregateCell(g, "CODE_LIST")
            IN  /\ AggregateCell(g, "DESCRIPTION_LIST") = StrJoin("|", descs)
                /\ ~Contains(AggregateCell(g, "DESCRIPTION_LIST"), "||")
                /\ ~Contains(clist, "||")
                /\ Len(codes) = 0 => clist = ""
                /\ Len(codes) > 0 =>
                      /\ Len(StrSplit(clist, "|")) = Len(codes)
                      /\ \A k \in 1..Len(codes) :
                            StartsWith(StrSplit(clist, "|")[k], codes[k])

\* The spec's example: (123, "Flu"), (456, ""), (789, "Cold").
C6_Witness ==
    /\ Aggregated
    /\ \E g \in 1..Len(Aggregate.rows) :
          /\ AggregateCell(g, "CODE_LIST") = "123|456|789"
          /\ AggregateCell(g, "DESCRIPTION_LIST") = "Flu|Cold"

(***************************************************************************)
(* Properties of the output (checked under Spec)                           *)
(***************************************************************************)

Output == written.df

OutputCell(r, col) == Output.rows[r][ColIndex(Output, col)]

\* The columns of the transaction table that reach the output under their
\* own name: not renamed by a merge, not named like a column a merge added.
KeptTransactionCols ==
    {c \in SeqToSet(Transactions.cols) :
        /\ HasCol(Output, c)
        /\ \A k \in 1..Len(JoinSteps) : c \notin SeqToSet(prov[JoinSteps[k]].added)}

\* The transaction row is a row of the output.
TransactionKept(i) ==
    \E r \in 1..Len(Output.rows) :
        \A c \in KeptTransactionCols :
            OutputCell(r, c) = Transactions.rows[i][ColIndex(Transactions, c)]

\* No row of the step's right-hand table carries the key the output row
\* carries in the step's left key columns.
Unmatched(r, step) ==
    \A j \in 1..Len(RightTable(step).rows) :
        KeyOf(RightTable(step), RightTable(step).rows[j], RightOn(step))
            # KeyOf(Output, Output.rows[r], LeftOn(step))

\* C7: the output keeps every transaction row, and a row whose key has no
\* matching row in the right-hand table of a join step is null in every
\* column that step contributed.
C7_UnmatchedRowsKeptWithNulls ==
    written.exists =>
        /\ \A i \in 1..Len(Transactions.rows) : TransactionKept(i)
        /\ \A k \in 1..Len(JoinSteps) : \A r \in 1..Len(Output.rows) :
              Unmatched(r, JoinSteps[k]) =>
                  \A c \in SeqToSet(prov[JoinSteps[k]].added) :
                      HasCol(Output, c) => OutputCell(r, c) = NaN

\* The spec's example: the claim's APPOINTMENTID E9 is no Encounter Id; the
\* pair then has no procedures either.
C7_Witness ==
    /\ written.exists
    /\ \E r \in 1..Len(Output.rows) :
          /\ OutputCell(r, "CLAIMID") = "C1"
          /\ OutputCell(r, "CLAIM_APPOINTMENTID") = "E9"
          /\ OutputCell(r, "ENCOUNTER_ID") = NaN
          /\ OutputCell(r, "ENCOUNTER_CODE") = NaN
          /\ OutputCell(r, "PROCEDURE_CODES") = NaN

\* The file is a table without rows: a header and no records.
EmptyFactFile(kind) ==
    files[kind].present /\ Len(files[kind].cols) > 0 /\ Len(files[kind].rows) = 0

\* C8: a clinical-fact file without records gives an empty aggregate with the
\* columns PATIENT, ENCOUNTER, <FACT>_CODES, <FACT>_DESCRIPTIONS; neither its
\* load nor the aggregation nor the join against it raises; and the output
\* has every transaction row with <FACT>_CODES and <FACT>_DESCRIPTIONS null.
C8_EmptyFactTable ==
    \A k \in 1..Len(FactKinds) :
        LET kind == FactKinds[k]
            agg  == prepared[kind \o "_agg"]
        IN  EmptyFactFile(kind) =>
              /\ Completed("aggregate_" \o kind) =>
                    /\ agg.cols = <<"PATIENT", "ENCOUNTER", FactPrefix(kind) \o "_CODES",
                                    FactPrefix(kind) \o "_DESCRIPTIONS">>
                    /\ Len(agg.rows) = 0
              /\ pc = "aborted" =>
                    err.at \notin {"load_" \o kind, "aggregate_" \o kind, "join_" \o kind}
              /\ written.exists =>
                    /\ \A i \in 1..Len(Transactions.rows) : TransactionKept(i)
                    /\ HasCol(Output, FactPrefix(kind) \o "_CODES")
                    /\ HasCol(Output, FactPrefix(kind) \o "_DESCRIPTIONS")
                    /\ \A r \in 1..Len(Output.rows) :
                          /\ OutputCell(r, FactPrefix(kind) \o "_CODES") = NaN
                          /\ OutputCell(r, FactPrefix(kind) \o "_DESCRIPTIONS") = NaN

\* A finished run over a conditions file without records.
C8_Witness ==
    /\ written.exists
    /\ EmptyFactFile("conditions")
    /\ Len(Output.rows) = 2
    /\ OutputCell(1, "CONDITION_CODES") = NaN
    /\ OutputCell(1, "PROCEDURE_CODES") = "1|2"

\* C10: the final output holds no column whose name a join step made by
\* appending a suffix to a name both of its sides carried.
C10_NoConflictMarkers ==
    written.exists =>
        \A k \in 1..Len(JoinSteps) :
            prov[JoinSteps[k]].suffixed \cap SeqToSet(Output.cols) = {}

(***************************************************************************)
(* Properties of the namespacing (checked under NsSpec)                    *)
(***************************************************************************)

Renamed == pc = "dimension_renamed"

DimensionPrefix(name) ==
    CASE name = "patients" -> "PATIENT_"
      [] name = "providers" -> "PROVIDER_"
      [] name = "organizations" -> "ORG_"
      [] name = "payers" -> "PAYER_"

NonKeyCols(df) == SeqToSet(df.cols) \ {"Id"}

\* C9: after the namespacing each dimension table keeps its key column Id and
\* has every other column named prefix + original name, and no two distinct
\* dimension tables share a non-key column name.
C9_NamespacingCollisionFree ==
    Renamed =>
        /\ \A d \in SeqToSet(DimensionNames) :
              LET before == tables[d]
                  after  == prepared[d \o "_renamed"]
              IN  /\ Len(after.cols) = Len(before.cols)
                  /\ after.rows = before.rows
                  /\ \A i \in 1..Len(before.cols) :
                        after.cols[i] = IF before.cols[i] = "Id" THEN "Id"
                                        ELSE DimensionPrefix(d) \o before.cols[i]
        /\ \A d1, d2 \in SeqToSet(DimensionNames) :
              d1 # d2 => NonKeyCols(prepared[d1 \o "_renamed"])
                            \cap NonKeyCols(prepared[d2 \o "_renamed"]) = {}

\* Patients carries ORG_NAME and organizations carries NAME: the renamed
\* tables hold PATIENT_ORG_NAME and ORG_NAME, and both keep Id.
C9_Witness ==
    /\ Renamed
    /\ {"Id", "PATIENT_ORG_NAME"} \subseteq SeqToSet(prepared["patients_renamed"].cols)
    /\ {"Id", "ORG_NAME", "ORG_PATIENT_NAME"}
          \subseteq SeqToSet(prepared["organizations_renamed"].cols)


(***************************************************************************)
(* The key columns of the right-hand tables (C11) and the columns of the   *)
(* growing result that share their names (C12)                             *)
(***************************************************************************)

\* The steps whose merge is followed by a drop of the right-hand key names.
KeyDropSteps ==
    {"join_patients", "join_providers", "join_organizations", "join_payers",
     "join_procedures", "join_conditions", "join_medications"}

\* The labels the step's merge gave the right-hand table's key columns: the
\* key's own name, or the name with the step's suffix where the growing
\* result already had a column of that name.
KeyLabels(step) ==
    {prov[step].added[ColIndex(RightTable(step), RightOn(step)[k])] :
        k \in 1..Len(RightOn(step))}

\* C11: after each of the patient, provider, organization and payer joins
\* the dimension's Id key, and after each of the procedure, condition and
\* medication joins the aggregate's PATIENT and ENCOUNTER keys, are in the
\* result under no name, suffixed or not; the written output holds no column
\* that comes from a right-hand key of these steps.
C11_RightKeysRemoved ==
    /\ \A s \in KeyDropSteps :
          Position = After(s) => KeyLabels(s) \cap SeqToSet(joined.cols) = {}
    /\ written.exists =>
          \A s \in KeyDropSteps : KeyLabels(s) \cap SeqToSet(Output.cols) = {}

Encounters == tables["encounters"]

\* The PATIENT value of the encounter the output row's claim refers to, null
\* when the claim refers to no loaded encounter.
EncounterPatient(r) ==
    LET m == {j \in 1..Len(Encounters.rows) :
                 Encounters.rows[j][ColIndex(Encounters, "Id")]
                     = OutputCell(r, "CLAIM_APPOINTMENTID")}
    IN  IF m = {} THEN NaN
        ELSE Encounters.rows[CHOOSE j \in m : TRUE][ColIndex(Encounters, "PATIENT")]

\* C12: the drops after the dimension and aggregate joins remove only columns
\* of the step's right-hand table: the transaction table's own Id column and
\* the encounter table's PATIENT column, where the inputs have them, are in
\* the written output, and over uniquely keyed tables every output row holds
\* its transaction's Id and its encounter's PATIENT.
C12_LeftColumnsKept ==
    written.exists =>
        /\ HasCol(Transactions, "Id") =>
              /\ HasCol(Output, "Id")
              /\ ValidInputSet =>
                    \A r \in 1..Len(Output.rows) :
                        OutputCell(r, "Id")
                            = Transactions.rows[r][ColIndex(Transactions, "Id")]
        /\ HasCol(Encounters, "PATIENT") =>
              /\ HasCol(Output, "PATIENT")
              /\ ValidInputSet =>
                    \A r \in 1..Len(Output.rows) :
                        OutputCell(r, "PATIENT") = EncounterPatient(r)

====
